---- MODULE Spec2Model ----
(***************************************************************************)
(* The historical-odds backfill of better_bets_app: the __main__ loop of   *)
(* pull_odds_history.py with its collaborators OddsData.get_data           *)
(* (get_data.py) and S3IO.load_json under the retry decorator (S3IO.py).   *)
(***************************************************************************)
EXTENDS Integers, Sequences, FiniteSets, TLC

(***************************************************************************)
(* Bounds of the model.                                                    *)
(***************************************************************************)
\* the CLI dates are drawn from a window of MaxDays calendar days
MaxDays == 6
\* runs of the script over the same range (SpecRerun)
MaxRuns == 2
\* longest range that is run more than once (SpecRerun)
MaxRerunLen == 2
\* first day of the window of CLI dates, as a proleptic Gregorian ordinal:
\* date(2023, 1, 29).toordinal(), so that the window runs over a month's end
FirstDay == 738549

(***************************************************************************)
(* Program constants.                                                      *)
(***************************************************************************)
\* pull_odds_history.py:68  `if remaining_reqs <= 400`
QuotaFloor == 400
\* pull_odds_history.py:72  `if number_errors >= 5`
ErrorCeiling == 5
\* S3IO.py:202  `@retry(times=5)` on load_json
RetryTimes == 5
\* get_data.py:86  `if api_response.status_code != 200`
StatusOK == 200
\* S3IO.py:218  json.dumps(data, indent=4)
JsonIndent == 4

Days == FirstDay .. (FirstDay + MaxDays - 1)

(***************************************************************************)
(* Dates: the window lies in January/February 2023.                        *)
(***************************************************************************)
\* date.fromordinal(i), for the ordinals of the window
\* (date(2022, 12, 31).toordinal() = 738520)
fromordinal(i) ==
    LET doy == i - 738520
    IN  IF doy <= 31 THEN [year |-> 2023, month |-> 1, day |-> doy]
                     ELSE [year |-> 2023, month |-> 2, day |-> doy - 31]

\* two-digit, zero-padded decimal
TwoDigits(n) == <<n \div 10, n % 10>>

\* the date written year, day, month: strftime("%Y-%d-%m")
str_date_day_month(i) ==
    LET d == fromordinal(i)
    IN  <<d.year, "-">> \o TwoDigits(d.day) \o <<"-">> \o TwoDigits(d.month)

\* str(day) of a datetime.date: YYYY-MM-DD
str_date(i) ==
    LET d == fromordinal(i)
    IN  <<d.year, "-">> \o TwoDigits(d.month) \o <<"-">> \o TwoDigits(d.day)

\* the day list in descending order
time_list_descending(start_dt, end_dt) ==
    [i \in 1 .. (end_dt + 1 - start_dt) |-> end_dt - (i - 1)]
\* the day list without its end date: range(start, end)
time_list_exclusive(start_dt, end_dt) ==
    [i \in 1 .. (end_dt - start_dt) |-> start_dt + (i - 1)]
\* time_list(start_dt, end_dt): the dates (as ordinals) from start to end,
\* ascending; empty when start_dt > end_dt
time_list(start_dt, end_dt) ==
    [i \in 1 .. (end_dt + 1 - start_dt) |-> start_dt + (i - 1)]

\* odds_date_format = str(day) + "T12:00:00Z"
odds_date_format(day) == str_date(day) \o <<"T12:00:00Z">>

\* nba_path = f"odds_data/raw_data/nba/nba_{day}.json": the directory, then
\* the file name, whose last element is the extension
nba_path(day) ==
    <<"odds_data/raw_data/nba/", "nba_">> \o str_date(day) \o <<".json">>

(***************************************************************************)
(* The upstream API and its responses.                                     *)
(***************************************************************************)
\* the values of the X-Requests-Remaining header: around the floor
QuotaValues == {QuotaFloor - 1, QuotaFloor, QuotaFloor + 1}
\* a response without the header
NoHeader == -1
Headers == QuotaValues \cup {NoHeader}

\* Python's None
None == [kind |-> "None", date |-> 0, rev |-> 0]
\* a body response.json() cannot parse (also the text of an error response)
Garbage == [kind |-> "garbage", date |-> 0, rev |-> 0]
\* the sports list of /v4/sports/
SportsList == [kind |-> "sports", date |-> 0, rev |-> 0]
\* the odds snapshot of a date, in revision rev of the upstream's data
Snapshot(day, rev) == [kind |-> "odds", date |-> day, rev |-> rev]

\* get_data.py:14  API_KEY = os.environ["ODDS_API_KEY"]
API_KEY == "ODDS_API_KEY"
\* pull_odds_history.py:17  API_KEY_PRD = os.environ["ODDS_API_KEY_PRD"]
API_KEY_PRD == "ODDS_API_KEY_PRD"
\* pull_odds_history.py:14
SPORTS_KEY == "basketball_nba"

\* no request was made yet
NoRequest == [end_point |-> <<>>, api_key |-> "none", date |-> <<>>]
\* _cache_sports: parameters = {'api_key': API_KEY, 'all': 'true'}
sports_request ==
    [end_point |-> <<"/v4/sports/">>, api_key |-> API_KEY, date |-> <<>>]
\* get_odds_history: parameters = {'apiKey': self._api_key, ..., 'date': odds_date}
odds_history_request(key, sport, odds_date) ==
    [end_point |-> <<"/v4/sports/", sport, "/odds-history/">>,
     api_key |-> key, date |-> odds_date]

\* requests.get raised: there is no response
NoResponse == [status |-> 0, body |-> Garbage, header |-> NoHeader]

\* what one requests.get can bring back, when the good payload is `payload`
Responses(payload) ==
    {NoResponse}
    \cup {[status |-> StatusOK, body |-> b, header |-> h] :
             b \in {payload, Garbage}, h \in Headers}
    \cup {[status |-> 429, body |-> Garbage, header |-> h] : h \in Headers}

\* a get_data that reads the header with headers.get('X-Requests-Remaining', 0):
\* a response without the header gives its payload and a counter of zero
get_data_default_zero(r, rr) ==
    IF r.status = 0
    THEN [raised |-> TRUE, ret |-> None, request_remaining |-> rr]
    ELSE IF r.status # StatusOK
    THEN [raised |-> FALSE, ret |-> None,
          request_remaining |-> IF r.header = NoHeader THEN 0 ELSE r.header]
    ELSE IF r.body.kind = "garbage"
         THEN [raised |-> TRUE, ret |-> None, request_remaining |-> rr]
         ELSE [raised |-> FALSE, ret |-> r.body,
               request_remaining |-> IF r.header = NoHeader THEN 0 ELSE r.header]

\* OddsData.get_data on response r, with self._request_remaining = rr:
\* raised = an exception leaves the call, ret = the value returned,
\* request_remaining = self._request_remaining afterwards
get_data(r, rr) ==
    IF r.status = 0
    THEN [raised |-> TRUE, ret |-> None, request_remaining |-> rr]
    ELSE IF r.status # StatusOK
    THEN IF r.header = NoHeader
         THEN [raised |-> TRUE, ret |-> None, request_remaining |-> rr]
         ELSE [raised |-> FALSE, ret |-> None, request_remaining |-> r.header]
    ELSE IF r.body.kind = "garbage" \/ r.header = NoHeader
         THEN [raised |-> TRUE, ret |-> None, request_remaining |-> rr]
         ELSE [raised |-> FALSE, ret |-> r.body, request_remaining |-> r.header]

\* a fetch that failed, in the sense of the specification: a network error,
\* a non-2xx response, or a payload that cannot be deserialised
FetchFailed(r) == r.status # StatusOK \/ r.body.kind = "garbage"

(***************************************************************************)
(* The blob store.                                                         *)
(***************************************************************************)
\* json.dumps(data, indent=4)
json_dumps(data) ==
    [indent |-> JsonIndent,
     text   |-> IF data.kind = "None" THEN "null" ELSE "object",
     date   |-> data.date,
     rev    |-> data.rev]

\* a put that never overwrites: the key gets a version suffix
put_versioned(s, file_path, body) ==
    [k \in DOMAIN s \cup {file_path \o <<Cardinality(DOMAIN s)>>} |->
        IF k \in DOMAIN s THEN s[k] ELSE body]
\* s3_resource.Object(bucket, file_path).put(Body=json_object), when it succeeds
put(s, file_path, body) ==
    [k \in DOMAIN s \cup {file_path} |-> IF k = file_path THEN body ELSE s[k]]

(***************************************************************************)
(* The breaker conditions of the loop.                                     *)
(***************************************************************************)
\* the quota check with `<` for `<=`
QuotaBreached_strict(reqs) == reqs < QuotaFloor
\* pull_odds_history.py:68
QuotaBreached(reqs) == reqs <= QuotaFloor
\* pull_odds_history.py:72
ErrorCeilingReached(errors) == errors >= ErrorCeiling

(***************************************************************************)
(* The exception handlers of the loop.                                     *)
(***************************************************************************)
\* a handler that forgets to count
count_error_forgotten(errors) == errors
\* pull_odds_history.py:83 and 95: number_errors += 1
count_error(errors) == errors + 1
\* the fetch without its try/except: the exception ends the script
fetch_reraise_pc == "crashed"
\* pull_odds_history.py:81-84: `except Exception` catches what the fetch
\* raised and `continue` goes on with the next day
fetch_except_pc == "loop"
\* pull_odds_history.py:93-95: `except Exception` catches what load_json
\* raised; the loop body ends
persist_except_pc == "loop"

\* a wrapper that never invokes the function again: `while False`
retry_guard_never(n) == FALSE
\* a retry loop that runs once more: `while attempt <= times`
retry_guard_off_by_one(n) == n <= RetryTimes
\* S3IO.py:23  `while attempt < times`: the invocation is guarded
retry_guard(n) == n < RetryTimes

(***************************************************************************)
(* State.                                                                  *)
(***************************************************************************)
VARIABLES
    from_dt, to_dt,      \* the CLI dates, as ordinals
    pc,                  \* "start", "loop", "fetch", "persist", "done", "crashed"
    days_list,           \* time_list(from_dt, to_dt)
    idx,                 \* position of `day` in days_list
    remaining_reqs,      \* the Quota Counter
    number_errors,       \* the Error Counter
    historical_data,     \* what get_odds_history returned
    request_remaining,   \* odds._request_remaining
    self_api_key,        \* odds._api_key
    json_sports,         \* odds._json_sports (odds._df_sports is its frame)
    request,             \* the most recent request given to requests.get
    api_response,        \* the most recent response of requests.get
    sports_fetches,      \* requests made to /v4/sports/ by this process
    attempt,             \* `attempt` of retry's aux
    store,               \* the bucket: key -> body
    upstream_rev,        \* revision of the upstream's historical data
    run,                 \* number of this run of the script
    last_log,            \* the last line given to logging
    calls,               \* this run: the days passed to get_odds_history
    written,             \* this run: the keys put, in order
    quota_log,           \* this run: the Quota Counter at each pre-day check
    all_ok,              \* this run: no fetch and no persist has failed
    prev,                \* the previous run: its final store and what it saw
    json_files,          \* transform_odds.py: the listing of the raw blobs
    odds_json,           \* transform_odds.py: what read_json returned
    outcomes,            \* transform_odds.py: how each file visited ended
    ret                  \* odds_api.py: what the last call on `odds` returned

vars == <<from_dt, to_dt, pc, days_list, idx, remaining_reqs, number_errors,
          historical_data, request_remaining, self_api_key, json_sports,
          request, api_response, sports_fetches, attempt, store,
          upstream_rev, run, last_log, calls, written, quota_log, all_ok, prev,
          json_files, odds_json, outcomes, ret>>

\* the variables of the transform stage
transform_vars == <<json_files, odds_json, outcomes>>

\* the fields of the OddsData object that only its constructor sets
odds_fields == <<self_api_key, json_sports, sports_fetches>>

day == days_list[idx]

NoPrev == [store |-> <<>>, quota_log |-> <<>>, all_ok |-> FALSE, rev |-> 0]

\* the state of a fresh process, before line 43
Fresh ==
    /\ pc = "start"
    /\ days_list = <<>>
    /\ idx = 1
    /\ remaining_reqs = 0
    /\ number_errors = 0
    /\ historical_data = None
    /\ request_remaining = 0
    /\ self_api_key = "none"
    /\ json_sports = None
    /\ request = NoRequest
    /\ api_response = NoResponse
    /\ sports_fetches = 0
    /\ attempt = 0
    /\ last_log = "none"
    /\ calls = <<>>
    /\ written = <<>>
    /\ quota_log = <<>>
    /\ all_ok = TRUE

Init ==
    /\ from_dt \in Days
    /\ to_dt \in (FirstDay - 1) .. (FirstDay + MaxDays - 1)
    /\ Fresh
    /\ store = <<>>
    /\ upstream_rev = 1
    /\ run = 1
    /\ prev = NoPrev
    /\ json_files = <<>>
    /\ odds_json = None
    /\ outcomes = <<>>
    /\ ret = None

(***************************************************************************)
(* Lines 43-63: the constructors, the first Quota Counter, the day list.   *)
(* OddsData.__init__ sets _request_remaining to 0 and calls _cache_sports, *)
(* whose get_data call may raise: the script then ends before the loop.    *)
(***************************************************************************)
Start ==
    /\ pc = "start"
    /\ self_api_key' = API_KEY_PRD
    /\ request' = sports_request
    /\ sports_fetches' = sports_fetches + 1
    /\ \E r \in Responses(SportsList) :
         LET res == get_data(r, 0)
         IN  /\ api_response' = r
             /\ IF res.raised
                THEN /\ pc' = "crashed"
                     /\ UNCHANGED <<request_remaining, remaining_reqs, days_list,
                                    last_log, json_sports>>
                ELSE /\ pc' = "loop"
                     /\ json_sports' = res.ret
                     /\ request_remaining' = res.request_remaining
                     /\ remaining_reqs' = res.request_remaining
                     /\ days_list' = time_list(from_dt, to_dt)
                     /\ last_log' = "Pulling"
    /\ UNCHANGED <<from_dt, to_dt, idx, number_errors, historical_data, attempt,
                   store, upstream_rev, run, calls, written, quota_log, all_ok,
                   prev, transform_vars, ret>>

(***************************************************************************)
(* Lines 66-74 and 96: the `for` header and the two pre-day checks.        *)
(***************************************************************************)
ForLoop ==
    /\ pc = "loop"
    /\ IF idx > Len(days_list)
       THEN \* the range is exhausted: line 96
            /\ pc' = "done"
            /\ last_log' = "Process Completed."
            /\ UNCHANGED quota_log
       ELSE /\ quota_log' = Append(quota_log, remaining_reqs)
            /\ IF QuotaBreached(remaining_reqs)
               THEN \* lines 69-70: break, then line 96
                    /\ pc' = "done"
                    /\ last_log' = "Process Completed."
               ELSE \* lines 72-74: two log lines and no break
                    /\ pc' = "fetch"
                    /\ last_log' = IF ErrorCeilingReached(number_errors)
                                   THEN "Stopping the process."
                                   ELSE last_log
    /\ UNCHANGED <<from_dt, to_dt, days_list, idx, remaining_reqs, number_errors,
                   historical_data, request_remaining, api_response, attempt,
                   store, upstream_rev, run, calls, written, all_ok, prev,
                   odds_fields, request, transform_vars, ret>>

(***************************************************************************)
(* Lines 77-86: get_odds_history, then get_remaining_req.                  *)
(***************************************************************************)
Fetch ==
    /\ pc = "fetch"
    /\ calls' = Append(calls, day)
    /\ request' = odds_history_request(self_api_key, SPORTS_KEY,
                                       odds_date_format(day))
    /\ \E r \in Responses(Snapshot(day, upstream_rev)) :
         LET res == get_data(r, request_remaining)
         IN  /\ api_response' = r
             /\ request_remaining' = res.request_remaining
             /\ all_ok' = (all_ok /\ ~FetchFailed(r) /\ ~res.raised)
             /\ IF res.raised
                THEN \* lines 81-84
                     /\ last_log' = "There was an error loading in the data"
                     /\ number_errors' = count_error(number_errors)
                     /\ idx' = idx + 1
                     /\ pc' = fetch_except_pc
                     /\ UNCHANGED <<historical_data, remaining_reqs>>
                ELSE \* lines 79-80, 86-87
                     /\ historical_data' = res.ret
                     /\ remaining_reqs' = res.request_remaining
                     /\ last_log' = "Persisting data"
                     /\ pc' = "persist"
                     /\ UNCHANGED <<number_errors, idx>>
    /\ UNCHANGED <<from_dt, to_dt, days_list, attempt, store, upstream_rev, run,
                   written, quota_log, prev, odds_fields, transform_vars, ret>>

(***************************************************************************)
(* Lines 89-95 with S3IO.py:19-32 and 202-219: one invocation of load_json *)
(* by retry's aux.  The first RetryTimes invocations are guarded, the next *)
(* one is not and its exception reaches the loop.                          *)
(***************************************************************************)
LoadJson ==
    /\ pc = "persist"
    /\ \E put_ok \in BOOLEAN :
         IF put_ok
         THEN \* the put succeeded: line 92
              /\ store' = put(store, nba_path(day), json_dumps(historical_data))
              /\ written' = Append(written, nba_path(day))
              /\ last_log' = "Successfully loaded the data to s3"
              /\ attempt' = 0
              /\ idx' = idx + 1
              /\ pc' = "loop"
              /\ UNCHANGED <<number_errors, all_ok>>
         ELSE IF retry_guard(attempt)
         THEN \* S3IO.py:26-29
              /\ attempt' = attempt + 1
              /\ last_log' = "On attempt"
              /\ UNCHANGED <<store, written, idx, pc, number_errors, all_ok>>
         ELSE \* S3IO.py:30 raised: lines 93-95
              /\ last_log' = "There was an issue loading the data to s3"
              /\ number_errors' = count_error(number_errors)
              /\ all_ok' = FALSE
              /\ attempt' = 0
              /\ idx' = idx + 1
              /\ pc' = persist_except_pc
              /\ UNCHANGED <<store, written>>
    /\ UNCHANGED <<from_dt, to_dt, days_list, remaining_reqs, historical_data,
                   request_remaining, api_response, upstream_rev, run, calls,
                   quota_log, prev, odds_fields, request, transform_vars, ret>>

(***************************************************************************)
(* The script is run again over the same range: a new process, the same    *)
(* bucket.  The upstream's data may have been revised in between.          *)
(***************************************************************************)
Rerun ==
    /\ pc = "done"
    /\ run < MaxRuns
    /\ run' = run + 1
    /\ prev' = [store |-> store, quota_log |-> quota_log, all_ok |-> all_ok,
                rev |-> upstream_rev]
    /\ upstream_rev' \in {upstream_rev, upstream_rev + 1}
    /\ pc' = "start"
    /\ days_list' = <<>>
    /\ idx' = 1
    /\ remaining_reqs' = 0
    /\ number_errors' = 0
    /\ historical_data' = None
    /\ request_remaining' = 0
    /\ self_api_key' = "none"
    /\ json_sports' = None
    /\ request' = NoRequest
    /\ api_response' = NoResponse
    /\ sports_fetches' = 0
    /\ attempt' = 0
    /\ last_log' = "none"
    /\ calls' = <<>>
    /\ written' = <<>>
    /\ quota_log' = <<>>
    /\ all_ok' = TRUE
    /\ UNCHANGED <<from_dt, to_dt, store, transform_vars, ret>>

Next == Start \/ ForLoop \/ Fetch \/ LoadJson

Spec == Init /\ [][Next]_vars

\* the process is scheduled until it ends
LiveSpec == Spec /\ WF_vars(Next)

InitRerun == Init /\ from_dt = FirstDay /\ to_dt < FirstDay + MaxRerunLen

NextRerun == Next \/ Rerun

SpecRerun == InitRerun /\ [][NextRerun]_vars

(***************************************************************************)
(* transform_odds.py: the transform stage, a script of its own that reads  *)
(* the raw blobs of the bucket and writes one table per blob.              *)
(***************************************************************************)
\* transform_odds.py:17  PERSIST_PATH = f"odds_data/transformed/{SPORT}/"
PERSIST_PATH == "odds_data/transformed/nba/"
\* transform_odds.py:107  the prefix given to s3_list_obj
RAW_DATA_PATH == "odds_data/raw_data/nba"

\* key.startswith(path), for the prefix the script lists
startswith(key, path) ==
    path = RAW_DATA_PATH /\ key[1] = "odds_data/raw_data/nba/"

\* S3IO.s3_list_obj(path): the keys of the bucket under the prefix, in the
\* order of the listing (ascending keys, which is ascending dates)
s3_list_obj(s, path) ==
    SelectSeq([i \in 1 .. MaxDays |-> nba_path(FirstDay + (i - 1))],
              LAMBDA key : key \in DOMAIN s /\ startswith(key, path))

\* json.load of a stored document: what json_dumps was given
json_load(doc) ==
    IF doc.text = "null" THEN None
    ELSE [kind |-> "odds", date |-> doc.date, rev |-> doc.rev]

\* parse_json(json_data): None has no 'timestamp' (TypeError); pd.concat
\* raises when no game of the snapshot gave a frame
parse_json(json_data, has_games) ==
    IF json_data.kind = "None" \/ ~has_games
    THEN [raised |-> TRUE, df |-> None]
    ELSE [raised |-> FALSE,
          df |-> [kind |-> "frame", date |-> json_data.date,
                  rev |-> json_data.rev]]

\* df.to_parquet(buffer); buffer.getvalue()
to_parquet(df) ==
    [indent |-> 0, text |-> "parquet", date |-> df.date, rev |-> df.rev]

\* file.split("/")[-1].split(".")[0]
file_name(file) == SubSeq(file, 2, Len(file) - 1)
\* file_path = PERSIST_PATH + file_name + ".parq"
file_path(file) == <<PERSIST_PATH>> \o file_name(file) \o <<".parq">>

\* transform_odds.py:113-115: `continue`
read_except_pc == "t_loop"
\* a handler that raises again: the script ends with the traceback
parse_reraise_pc == "t_crashed"
\* transform_odds.py:120-122: `continue`
parse_except_pc == "t_loop"
\* transform_odds.py:129-130: the handler logs; the loop body ends
write_except_pc == "t_loop"

\* what the transform stage leaves alone once it runs
backfill_vars ==
    <<from_dt, to_dt, days_list, remaining_reqs, number_errors,
      historical_data, request_remaining, request, api_response, upstream_rev,
      run, calls, quota_log, all_ok, prev, odds_fields, ret>>

\* the file of the current iteration of `for file in json_files`
file == json_files[idx]

(***************************************************************************)
(* Lines 104-108: the script starts, when no backfill runs (before one,    *)
(* after one ended or died), and lists the raw blobs.  s3_list_obj is not  *)
(* in a try: if it raises the script ends.                                 *)
(***************************************************************************)
TransformStart ==
    /\ pc \in {"start", "done", "crashed"}
    /\ \E list_ok \in BOOLEAN :
         IF list_ok
         THEN /\ json_files' = s3_list_obj(store, RAW_DATA_PATH)
              /\ last_log' = "parsing files"
              /\ pc' = "t_loop"
         ELSE /\ json_files' = <<>>
              /\ last_log' = "none"
              /\ pc' = "t_crashed"
    /\ odds_json' = None
    /\ outcomes' = <<>>
    /\ days_list' = <<>>
    /\ idx' = 1
    /\ remaining_reqs' = 0
    /\ number_errors' = 0
    /\ historical_data' = None
    /\ request_remaining' = 0
    /\ self_api_key' = "none"
    /\ json_sports' = None
    /\ request' = NoRequest
    /\ api_response' = NoResponse
    /\ sports_fetches' = 0
    /\ attempt' = 0
    /\ calls' = <<>>
    /\ written' = <<>>
    /\ quota_log' = <<>>
    /\ all_ok' = TRUE
    /\ UNCHANGED <<from_dt, to_dt, store, upstream_rev, run, prev, ret>>

\* lines 109 and 132: the `for` header
TransformFor ==
    /\ pc = "t_loop"
    /\ IF idx > Len(json_files)
       THEN /\ pc' = "t_done"
            /\ last_log' = "Transformation completed"
       ELSE /\ pc' = "t_read"
            /\ UNCHANGED last_log
    /\ UNCHANGED <<backfill_vars, transform_vars, idx, attempt, store, written>>

\* lines 110-115 with S3IO.py:19-32 and 221-237: one invocation of read_json
ReadJson ==
    /\ pc = "t_read"
    /\ \E get_ok \in BOOLEAN :
         IF get_ok
         THEN /\ odds_json' = json_load(store[file])
              /\ last_log' = "Parsing the data for file"
              /\ attempt' = 0
              /\ pc' = "t_parse"
              /\ UNCHANGED <<outcomes, idx>>
         ELSE IF retry_guard(attempt)
         THEN /\ attempt' = attempt + 1
              /\ last_log' = "On attempt"
              /\ UNCHANGED <<odds_json, outcomes, idx, pc>>
         ELSE /\ last_log' = "Could not load the file"
              /\ outcomes' = Append(outcomes, "read_failed")
              /\ attempt' = 0
              /\ idx' = idx + 1
              /\ pc' = read_except_pc
              /\ UNCHANGED odds_json
    /\ UNCHANGED <<backfill_vars, json_files, store, written>>

\* lines 117-122: parse_json in its try
ParseJson ==
    /\ pc = "t_parse"
    /\ \E has_games \in BOOLEAN :
         IF parse_json(odds_json, has_games).raised
         THEN /\ last_log' = "Issue with file"
              /\ outcomes' = Append(outcomes, "parse_failed")
              /\ idx' = idx + 1
              /\ pc' = parse_except_pc
         ELSE /\ last_log' = "Persisting file"
              /\ pc' = "t_write"
              /\ UNCHANGED <<outcomes, idx>>
    /\ UNCHANGED <<backfill_vars, json_files, odds_json, attempt, store, written>>

\* lines 124-130 with S3IO.py:19-32 and 239-263: one invocation of
\* s3_write_parquet, on the frame parse_json made of odds_json
WriteParquet ==
    /\ pc = "t_write"
    /\ \E put_ok \in BOOLEAN :
         IF put_ok
         THEN /\ store' = put(store, file_path(file),
                              to_parquet(parse_json(odds_json, TRUE).df))
              /\ written' = Append(written, file_path(file))
              /\ outcomes' = Append(outcomes, "written")
              /\ attempt' = 0
              /\ idx' = idx + 1
              /\ pc' = "t_loop"
              /\ UNCHANGED last_log
         ELSE IF retry_guard(attempt)
         THEN /\ attempt' = attempt + 1
              /\ last_log' = "On attempt"
              /\ UNCHANGED <<store, written, outcomes, idx, pc>>
         ELSE /\ last_log' = "There was an issue loading the file"
              /\ outcomes' = Append(outcomes, "write_failed")
              /\ attempt' = 0
              /\ idx' = idx + 1
              /\ pc' = write_except_pc
              /\ UNCHANGED <<store, written>>
    /\ UNCHANGED <<backfill_vars, json_files, odds_json>>

NextPipeline ==
    Next \/ TransformStart \/ TransformFor \/ ReadJson \/ ParseJson \/ WriteParquet

\* the backfill over a short range, then the transform stage
SpecPipeline == InitRerun /\ [][NextPipeline]_vars

(***************************************************************************)
(* odds_api.py: the REST facade builds one OddsData object when the module *)
(* is loaded (line 10) and its resources call that object's methods, in    *)
(* any order and any number of times.                                      *)
(***************************************************************************)
\* what to_json(orient='records') makes of the active rows of the cached frame
ActiveSports == [kind |-> "active_sports", date |-> 0, rev |-> 0]
\* the scores of /v4/sports/{sport}/scores/
Scores == [kind |-> "scores", date |-> 0, rev |-> 0]
\* the call raised instead of returning
Raised == [kind |-> "raised", date |-> 0, rev |-> 0]

\* the values request.args.get('all') can have ("none": the argument is absent)
AllSportsArgs == {"true", "false", "none"}

\* a get_sports that asks the upstream again: its answer is the upstream's
\* list, whatever the constructor cached
get_sports_refetched(cache, all_sports) ==
    IF all_sports = "true" THEN SportsList ELSE ActiveSports
\* OddsData.get_sports(all_sports), with self._json_sports = cache and
\* self._df_sports = pd.DataFrame(cache): the frame of None has no 'active'
\* column and indexing it raises KeyError
get_sports(cache, all_sports) ==
    IF all_sports = "true" THEN cache
    ELSE IF cache.kind = "None" THEN Raised ELSE ActiveSports

\* get_scores: end_point = f'/v4/sports/{sport}/scores/', 'api_key': self._api_key
scores_request(key, sport) ==
    [end_point |-> <<"/v4/sports/", sport, "/scores/">>,
     api_key |-> key, date |-> <<>>]

\* what the facade never touches
facade_frame ==
    <<from_dt, to_dt, days_list, idx, remaining_reqs, number_errors,
      historical_data, attempt, store, upstream_rev, run, last_log, calls,
      written, quota_log, all_ok, prev, transform_vars>>

\* odds_api.py:10  odds = OddsData(): no api_key, so the dev key; the sports
\* list is fetched and cached (get_data.py:53-60)
Construct ==
    /\ pc = "start"
    /\ self_api_key' = API_KEY
    /\ request' = sports_request
    /\ sports_fetches' = sports_fetches + 1
    /\ \E r \in Responses(SportsList) :
         LET res == get_data(r, 0)
         IN  /\ api_response' = r
             /\ IF res.raised
                THEN /\ pc' = "crashed"
                     /\ UNCHANGED <<request_remaining, json_sports>>
                ELSE /\ pc' = "serving"
                     /\ json_sports' = res.ret
                     /\ request_remaining' = res.request_remaining
    /\ UNCHANGED <<facade_frame, ret>>

\* odds_api.py:19-22 with get_data.py:120-143
GetSports ==
    /\ pc = "serving"
    /\ \E all_sports \in AllSportsArgs :
         ret' = get_sports(json_sports, all_sports)
    /\ UNCHANGED <<facade_frame, pc, odds_fields, request, api_response,
                   request_remaining>>

\* odds_api.py:27-32 with get_data.py:145-180
GetScores ==
    /\ pc = "serving"
    /\ request' = scores_request(self_api_key, SPORTS_KEY)
    /\ \E r \in Responses(Scores) :
         LET res == get_data(r, request_remaining)
         IN  /\ api_response' = r
             /\ request_remaining' = res.request_remaining
             /\ ret' = (IF res.raised THEN Raised ELSE res.ret)
    /\ UNCHANGED <<facade_frame, pc, odds_fields>>

\* odds_api.py:37-50: the call passes odds_format, a keyword that get_odds
\* (get_data.py:183-188) does not take: TypeError, before any request
GetOdds ==
    /\ pc = "serving"
    /\ ret' = Raised
    /\ UNCHANGED <<facade_frame, pc, odds_fields, request, api_response,
                   request_remaining>>

InitFacade == Init /\ from_dt = FirstDay /\ to_dt = FirstDay

NextFacade == Construct \/ GetSports \/ GetScores \/ GetOdds

SpecFacade == InitFacade /\ [][NextFacade]_vars

(***************************************************************************)
(* Properties.                                                             *)
(***************************************************************************)
\* the number of dates from from_dt to to_dt, both included
RangeLen == IF to_dt >= from_dt THEN to_dt - from_dt + 1 ELSE 0

\* the keys of the first n dates of the range
KeysBefore(n) == {nba_path(from_dt + (i - 1)) : i \in 1 .. n}

\* C1: a pre-day check that finds the Quota Counter at or below 400 ends the
\* loop: it is the last check of the run, no get_odds_history and no
\* load_json is made for that day or a later one, the blobs written for the
\* earlier days are in the store, and when the k earlier days were all
\* persisted the store holds exactly k artifacts.
C1_QuotaBreaker ==
    \A i \in 1 .. Len(quota_log) :
        quota_log[i] <= 400 =>
            /\ pc = "done"
            /\ i = Len(quota_log)
            /\ calls = [j \in 1 .. (i - 1) |-> from_dt + (j - 1)]
            /\ \A j \in 1 .. Len(written) :
                   written[j] \in KeysBefore(i - 1) /\ written[j] \in DOMAIN store
            /\ (run = 1 /\ Len(written) = i - 1) =>
                   Cardinality(DOMAIN store) = i - 1

\* C1 witness: days 1 and 2 were fetched and persisted, and the third
\* pre-day check found the counter at the floor
C1_Witness ==
    /\ pc = "done"
    /\ Len(quota_log) = 3
    /\ quota_log[3] = 400
    /\ Len(written) = 2
    /\ RangeLen > 3

\* C2: with the Error Counter at 5 or more at a pre-day check, no
\* get_odds_history and no load_json is made for that day: the loop is
\* never at the fetch or at the persist with 5 or more errors counted.
C2_ErrorCeilingStops ==
    number_errors >= 5 => pc \notin {"fetch", "persist"}

\* C3: a fetch that fails (network exception, non-2xx response, payload
\* that cannot be deserialised) adds exactly one to the Error Counter and the
\* loop goes on to the next day's checks.
C3_FetchFailureCounted ==
    [][(pc = "fetch" /\ FetchFailed(api_response'))
          => /\ number_errors' = number_errors + 1
             /\ idx' = idx + 1
             /\ pc' = "loop"]_vars

\* C4: a step changes the store only by writing the blob of the current day
\* after a fetch that succeeded, one blob for the day; the persist of a day
\* whose fetch failed (network error, non-2xx response, bad payload) is never
\* reached and writes nothing.
C4_BlobPerDay ==
    /\ [][store' # store
            => /\ pc = "persist"
               /\ ~FetchFailed(api_response)
               /\ written' = Append(written, nba_path(from_dt + (idx - 1)))
               /\ DOMAIN store' = DOMAIN store \cup {nba_path(from_dt + (idx - 1))}
               /\ \A k \in DOMAIN store :
                      k # nba_path(from_dt + (idx - 1)) => store'[k] = store[k]]_vars
    /\ [](\A i, j \in 1 .. Len(written) : written[i] = written[j] => i = j)

\* C5: when load_json fails for a day (the call after the last retry raised),
\* the Error Counter grows by exactly one, the failure is logged, no fetch is
\* made in that step, and the loop goes on to the checks of the next day; no
\* day is ever fetched twice.
C5_PersistFailure ==
    /\ [][(pc = "persist" /\ pc' # "persist" /\ written' = written)
            => /\ number_errors' = number_errors + 1
               /\ last_log' = "There was an issue loading the data to s3"
               /\ calls' = calls
               /\ store' = store
               /\ pc' = "loop"
               /\ idx' = idx + 1]_vars
    /\ [](\A i, j \in 1 .. Len(calls) : calls[i] = calls[j] => i = j)

\* C5 witness: the persist of the first day failed, and the loop is at the
\* checks of the second day with one error counted and nothing written
C5_Witness ==
    /\ pc = "loop"
    /\ idx = 2
    /\ last_log = "There was an issue loading the data to s3"
    /\ number_errors = 1
    /\ ~FetchFailed(api_response)
    /\ written = <<>>

\* C6: the loop visits the dates of the range in ascending order, each at
\* most once, for every pair of CLI dates (from_dt > to_dt gives no visit);
\* it always reaches its end, and the completion line is then the last line
\* logged.
C6_Termination ==
    /\ [](\A i, j \in 1 .. Len(calls) : i < j => calls[i] < calls[j])
    /\ [](\A i \in 1 .. Len(calls) : calls[i] >= from_dt /\ calls[i] <= to_dt)
    /\ [](pc = "done" => last_log = "Process Completed.")
    /\ ((pc = "loop") ~> (pc = "done"))

\* C6 witness: the loop ended after visiting the three days of a range, two
\* of them failed
C6_Witness ==
    /\ pc = "done"
    /\ RangeLen = 3
    /\ Len(calls) = 3
    /\ number_errors = 2

\* every Quota Counter seen at a pre-day check of this run is above q
QuotaAlwaysAbove(q) == \A i \in 1 .. Len(quota_log) : quota_log[i] > q

\* the keys of the whole range, in ascending date order
AllKeys == [i \in 1 .. RangeLen |-> nba_path(from_dt + (i - 1))]

\* C7 as stated: with no failed fetch, no failed persist and the Quota
\* Counter never below 400 (399 or less) at a pre-day check, the run
\* persists one artifact per date of the range, in ascending date order.
C7_Original ==
    (pc = "done" /\ all_ok /\ QuotaAlwaysAbove(399))
        => /\ written = AllKeys
           /\ DOMAIN store = {AllKeys[i] : i \in 1 .. RangeLen}
           /\ Cardinality(DOMAIN store) = RangeLen

\* C7 amended: with no failed fetch, no failed persist and the Quota Counter
\* above 400 at every pre-day check, the run persists exactly N artifacts,
\* one per date of the range, in ascending date order.
C7_FullRun ==
    (pc = "done" /\ all_ok /\ QuotaAlwaysAbove(400))
        => /\ written = AllKeys
           /\ DOMAIN store = {AllKeys[i] : i \in 1 .. RangeLen}
           /\ Cardinality(DOMAIN store) = RangeLen

\* C7 witness: a run over three days without a failure has ended
C7_Witness ==
    /\ pc = "done"
    /\ all_ok
    /\ QuotaAlwaysAbove(400)
    /\ RangeLen = 3
    /\ Len(written) = 3

\* C8: in a re-run, the only blobs whose content changes are those of days
\* the re-run fetched successfully: a step changes an existing blob only at
\* the persist of the blob's own day, after a fetch that did not fail.
C8_ResumabilityFrame ==
    [][(run > 1 /\ run' = run)
          => \A k \in DOMAIN store :
                (k \notin DOMAIN store' \/ store'[k] # store[k])
                    => /\ pc = "persist"
                       /\ k = nba_path(from_dt + (idx - 1))
                       /\ ~FetchFailed(api_response)]_vars

\* C9: a run that sees what the run before it saw (the same revision of the
\* upstream's data, the same Quota Counter at each pre-day check, every fetch
\* and every persist succeeding in both) leaves the store as the run before
\* left it: the same keys, the same content under each.
C9_Idempotence ==
    (/\ pc = "done"
     /\ run > 1
     /\ all_ok
     /\ prev.all_ok
     /\ prev.rev = upstream_rev
     /\ prev.quota_log = quota_log)
        => store = prev.store

\* C9 witness: the second run over two days has ended, having seen what the
\* first saw and written both days again
C9_Witness ==
    /\ pc = "done"
    /\ run = 2
    /\ all_ok
    /\ prev.all_ok
    /\ prev.rev = upstream_rev
    /\ prev.quota_log = quota_log
    /\ Len(written) = 2

\* C10: the script dies of an exception only before the loop, and a run
\* that ends before the last date of the range ends at a pre-day check that
\* found the Quota Counter at or below 400 or the Error Counter at 5 or more.
C10_NoEscape ==
    /\ pc = "crashed" => (quota_log = <<>> /\ calls = <<>>)
    /\ (pc = "done" /\ Len(calls) < RangeLen)
           => /\ Len(quota_log) = Len(calls) + 1
              /\ \/ quota_log[Len(quota_log)] <= 400
                 \/ number_errors >= 5

\* C10 witness: every day of a range of three raised, in the fetch or in
\* the persist, and the loop still visited all three
C10_Witness ==
    /\ pc = "done"
    /\ RangeLen = 3
    /\ Len(calls) = 3
    /\ number_errors = 3
    /\ last_log = "Process Completed."

\* C11: after every HTTP response that get_data receives, whatever its status
\* and whether or not its body deserialises, get_remaining_req() returns the
\* integer of that response's X-Requests-Remaining header, and the value the
\* loop compares with the floor before the next day is that integer
C11_QuotaFreshness ==
    (api_response.status # 0 /\ api_response.header # NoHeader) =>
        /\ request_remaining = api_response.header
        /\ (pc = "loop" => remaining_reqs = api_response.header)

\* C12: when a response lacks the X-Requests-Remaining header the call raises
\* instead of returning a payload: the constructor's failure ends the script
\* before the loop, a day's failure is counted and logged and nothing of the
\* day is kept or persisted; neither counter is assigned in that step, and
\* the values the loop checks are always integers that a header reported
C12_MissingHeader ==
    /\ [][(pc \in {"start", "fetch"} /\ api_response'.status # 0
              /\ api_response'.header = NoHeader)
            => /\ pc' = (IF pc = "start" THEN "crashed" ELSE "loop")
               /\ pc = "fetch" => number_errors' = number_errors + 1
               /\ historical_data' = historical_data
               /\ request_remaining' = request_remaining
               /\ remaining_reqs' = remaining_reqs
               /\ store' = store]_vars
    /\ [](pc \in {"loop", "fetch", "persist", "done"}
            => remaining_reqs \in QuotaValues /\ request_remaining \in QuotaValues)

\* a day's response came with a good payload and without the header: the day
\* is counted as an error and the loop is at the next day's checks
C12_Witness ==
    /\ pc = "loop"
    /\ idx = 2
    /\ api_response.status = StatusOK
    /\ api_response.body.kind = "odds"
    /\ api_response.header = NoHeader
    /\ number_errors = 1
    /\ historical_data = None
    /\ store = <<>>

\* the ISO form of the dates of the window, and of 2023-01-15, written out
ISODate ==
    [i \in {738535} \cup (738549 .. 738556) |->
        CASE i = 738535 -> <<2023, "-", 0, 1, "-", 1, 5>>
          [] i = 738549 -> <<2023, "-", 0, 1, "-", 2, 9>>
          [] i = 738550 -> <<2023, "-", 0, 1, "-", 3, 0>>
          [] i = 738551 -> <<2023, "-", 0, 1, "-", 3, 1>>
          [] i = 738552 -> <<2023, "-", 0, 2, "-", 0, 1>>
          [] i = 738553 -> <<2023, "-", 0, 2, "-", 0, 2>>
          [] i = 738554 -> <<2023, "-", 0, 2, "-", 0, 3>>
          [] i = 738555 -> <<2023, "-", 0, 2, "-", 0, 4>>
          [] i = 738556 -> <<2023, "-", 0, 2, "-", 0, 5>>]

\* C13: for sport key "basketball_nba" and every date d of the range the blob
\* key is odds_data/raw_data/nba/nba_<ISO d>.json and the timestamp passed to
\* get_odds_history is <ISO d>T12:00:00Z (2023-01-15 gives
\* odds_data/raw_data/nba/nba_2023-01-15.json and 2023-01-15T12:00:00Z); every
\* request and every write of the loop uses them, whatever the payload, and
\* two different dates never have the same key (the facts about the two
\* functions alone are evaluated where a run starts)
C13_KeyDerivation ==
    /\ [](pc = "start"
            => /\ nba_path(738535)
                    = <<"odds_data/raw_data/nba/", "nba_">> \o ISODate[738535]
                         \o <<".json">>
               /\ odds_date_format(738535) = ISODate[738535] \o <<"T12:00:00Z">>
               /\ \A d1, d2 \in Days : nba_path(d1) = nba_path(d2) => d1 = d2)
    /\ [][calls' # calls
            => /\ request'.end_point
                    = <<"/v4/sports/", "basketball_nba", "/odds-history/">>
               /\ request'.date
                    = ISODate[from_dt + (idx - 1)] \o <<"T12:00:00Z">>]_vars
    /\ [][written' # written
            => /\ written'
                    = Append(written,
                             <<"odds_data/raw_data/nba/", "nba_">>
                                 \o ISODate[from_dt + (idx - 1)] \o <<".json">>)
               /\ written'[Len(written')] \in DOMAIN store']_vars

\* the blob of 2023-02-01 has just been written, under its key, after a
\* request for the snapshot of 2023-02-01T12:00:00Z
C13_Witness ==
    /\ pc = "loop"
    /\ written # <<>>
    /\ written[Len(written)]
         = <<"odds_data/raw_data/nba/", "nba_", 2023, "-", 0, 2, "-", 0, 1, ".json">>
    /\ written[Len(written)] \in DOMAIN store
    /\ request.date = <<2023, "-", 0, 2, "-", 0, 1, "T12:00:00Z">>

\* the files visited so far that ended with `outcome`
FilesWith(outcome) == {i \in 1 .. Len(outcomes) : outcomes[i] = outcome}

\* C14: the transform stage handles each listed raw blob on its own: once the
\* listing is there no failure to read, parse or write a file ends the script,
\* each failure is logged and the loop goes on to the next file, and the script
\* completes having visited every listed file; a file that was read and parsed
\* gets one write, to odds_data/transformed/nba/<basename>.parq, and no other
\* write is made; an empty listing gives zero writes and a normal completion
C14_TransformTolerance ==
    /\ [][(pc \in {"t_loop", "t_read", "t_parse", "t_write"})
            => pc' # "t_crashed"]_vars
    /\ [][(pc \in {"t_read", "t_parse", "t_write"}
              /\ Len(outcomes') = Len(outcomes) + 1)
            => /\ idx' = idx + 1
               /\ pc' = "t_loop"
               /\ outcomes'[Len(outcomes')] # "written"
                    => /\ store' = store
                       /\ last_log' \in {"Could not load the file",
                                          "Issue with file",
                                          "There was an issue loading the file"}]_vars
    /\ [][(pc \in {"t_loop", "t_read", "t_parse", "t_write"} /\ store' # store)
            => /\ pc = "t_write"
               /\ outcomes' = Append(outcomes, "written")
               /\ \E d \in Days :
                    /\ json_files[idx]
                         = <<"odds_data/raw_data/nba/", "nba_">> \o ISODate[d]
                              \o <<".json">>
                    /\ written'
                         = Append(written,
                                  <<"odds_data/transformed/nba/", "nba_">>
                                      \o ISODate[d] \o <<".parq">>)
                    /\ DOMAIN store' = DOMAIN store \cup {written'[Len(written')]}]_vars
    /\ [](pc \in {"t_loop", "t_read", "t_parse", "t_write", "t_done"}
            => /\ Len(written) = Cardinality(FilesWith("written"))
               /\ \A i, j \in 1 .. Len(written) : written[i] = written[j] => i = j
               /\ Len(outcomes) = idx - 1)
    /\ [](pc = "t_done"
            => /\ Len(outcomes) = Len(json_files)
               /\ last_log = "Transformation completed"
               /\ json_files = <<>> => written = <<>>)

\* two raw blobs were listed; the first could not be parsed, the second was
\* read, parsed and written, and the script completed
C14_Witness ==
    /\ pc = "t_done"
    /\ Len(json_files) = 2
    /\ outcomes = <<"parse_failed", "written">>
    /\ Len(written) = 1
    /\ written[1] = <<"odds_data/transformed/nba/">>
                        \o SubSeq(json_files[2], 2, 9) \o <<".parq">>
    /\ written[1] \in DOMAIN store
    /\ store[written[1]].text = "parquet"

\* C15: the sports list is requested from the upstream exactly once, by the
\* constructor; no later call asks for it again, and a get_sports call, with
\* all_sports 'true' or not, is answered from the cached value alone: it makes
\* no request, receives no response and leaves the cache and the counter that
\* get_remaining_req returns as they were
C15_SportsCache ==
    /\ [](pc = "serving" => sports_fetches = 1 /\ self_api_key = API_KEY)
    /\ [][pc = "serving"
            => /\ json_sports' = json_sports
               /\ sports_fetches' = sports_fetches
               /\ request' # request => Len(request'.end_point) = 3]_vars
    /\ [][GetSports
            => /\ request' = request
               /\ api_response' = api_response
               /\ request_remaining' = request_remaining
               /\ ret' \in {json_sports,
                            IF json_sports = None THEN Raised ELSE ActiveSports}]_vars

\* a scores request has moved the counter from 401 to 399, and the get_sports
\* call after it was answered with the active sports of the cached list
C15_Witness ==
    /\ pc = "serving"
    /\ sports_fetches = 1
    /\ json_sports = SportsList
    /\ ret = ActiveSports
    /\ request = scores_request(API_KEY, "basketball_nba")
    /\ api_response.header = 399
    /\ request_remaining = 399

\* C16 as stated: for each day the loop makes at most one get_odds_history
\* call and at most one put to the blob store; a failed fetch or a failed
\* persist is never attempted again, by the loop or by a wrapper
C16_NoRetry ==
    /\ \A i \in 1 .. Len(calls) : calls[i] = days_list[i]
    /\ Len(calls) <= idx
    /\ pc = "persist" => attempt = 0

\* C16: for each day the loop makes at most one get_odds_history call, never
\* repeated after a failure, and at most one load_json call, after which it
\* goes on to the next day; a put that failed is attempted again only inside
\* load_json, by its retry(times=5) wrapper, at most five times
C16_RetryOnlyInWrapper ==
    /\ [](/\ \A i \in 1 .. Len(calls) : calls[i] = days_list[i]
          /\ Len(calls) <= idx
          /\ attempt \in 0 .. 5
          /\ attempt > 0 => pc = "persist")
    /\ [][pc = "fetch"
            => /\ pc' \in {"persist", "loop"}
               /\ pc' = "loop" => idx' = idx + 1]_vars
    /\ [][(pc = "persist" /\ pc' # "persist")
            => pc' = "loop" /\ idx' = idx + 1 /\ calls' = calls]_vars

\* the first day's put has failed twice and load_json's wrapper is about to
\* issue the third; the day was fetched once and no error is counted
C16_Witness ==
    /\ pc = "persist"
    /\ attempt = 2
    /\ last_log = "On attempt"
    /\ calls = <<from_dt>>
    /\ number_errors = 0
    /\ store = <<>>

\* C17: number_errors is 0 when the loop starts, never decreases during a run,
\* never exceeds the number of days visited, and when a day ends it has grown
\* by exactly one if the day failed (its fetch failed: a network error, a
\* non-2xx response or a payload that does not deserialise; or its persist
\* failed) and by zero if the day succeeded
C17_ErrorCounter ==
    /\ [](pc = "start" => number_errors = 0)
    /\ []((pc = "loop" /\ idx = 1) => number_errors = 0)
    /\ [](number_errors <= Len(calls))
    /\ [][(pc \in {"loop", "fetch", "persist"})
            => number_errors' >= number_errors]_vars
    /\ [][(pc = "fetch" /\ idx' = idx + 1)
            => number_errors' = number_errors + 1]_vars
    /\ [][(pc = "persist" /\ idx' = idx + 1)
            => number_errors'
                 = number_errors
                     + (IF FetchFailed(api_response) \/ written' = written
                        THEN 1 ELSE 0)]_vars

\* C18: load_json, wrapped with retry(times=5), is invoked at most 6 times per
\* call: an invocation that fails after fewer than 5 failures is logged and
\* followed by another, nothing being counted; the first invocation that
\* succeeds ends the call; only the failure of the sixth invocation reaches
\* the loop, which then counts one error
C18_RetryAttempts ==
    /\ [](attempt \in 0 .. 5)
    /\ [][(pc = "persist" /\ written' = written /\ attempt < 5)
            => /\ pc' = "persist"
               /\ attempt' = attempt + 1
               /\ last_log' = "On attempt"
               /\ number_errors' = number_errors
               /\ idx' = idx]_vars
    /\ [][(pc = "persist" /\ written' # written)
            => /\ pc' = "loop"
               /\ attempt' = 0
               /\ Len(written') = Len(written) + 1
               /\ number_errors' = number_errors]_vars
    /\ [][(pc = "persist" /\ number_errors' # number_errors)
            => /\ attempt = 5
               /\ written' = written
               /\ number_errors' = number_errors + 1
               /\ pc' = "loop"]_vars

\* five puts of the first day have failed and the sixth invocation is about
\* to be made: nothing is stored and no error is counted yet
C18_Witness ==
    /\ pc = "persist"
    /\ attempt = 5
    /\ idx = 1
    /\ number_errors = 0
    /\ written = <<>>

\* C19: the remaining-quota value checked against the floor before the first
\* day was reported by the response to a request made with the API key of the
\* historical fetches (the key given to OddsData as api_key), and is not the
\* constructor's initial 0
C19_InitialQuotaKey ==
    (pc = "loop" /\ idx = 1 /\ calls = <<>>)
        => /\ remaining_reqs = api_response.header
           /\ remaining_reqs # 0
           /\ request.api_key = self_api_key

====
